---- MODULE Spec2Model ----
(***************************************************************************)
(* dyPolyChord: dynamic nested sampling driven through PolyChord.          *)
(*                                                                         *)
(* Two parts of the repository are modelled:                               *)
(*   - run_dynamic_polychord (src/dypypolychord/__init__.py): the          *)
(*     exploration loop, the live-point allocation, the choice of the      *)
(*     resume checkpoint, the dynamic run and the removal of the tagged    *)
(*     checkpoints;                                                        *)
(*   - combine_resumed_dyn_run (src/dyPolyChord/output_processing.py): the *)
(*     merge of the exploratory run with the resumed dynamic run.          *)
(*                                                                         *)
(* PolyChord and nestcheck are external: a sampler call is a choice over   *)
(* the dead counts it may report, and the relative posterior mass is a     *)
(* choice over weight profiles.                                            *)
(***************************************************************************)
EXTENDS Integers, Sequences, FiniteSets, TLC

VARIABLES
    \* ---- run_dynamic_polychord ----
    pc,              \* position in run_dynamic_polychord
    ninit,           \* kwargs 'ninit'
    init_step,       \* kwargs 'init_step'
    dyn_nlive_step,  \* kwargs 'dyn_nlive_step'
    rank,            \* comm.rank
    add_points,      \* loop flag
    step_ndead,      \* history of output.ndead - nlive, one per sub-invocation
    cut,             \* per sub-invocation: was the sampler stopped by max_ndead
    calls,           \* settings of every run_polychord call issued so far
    files,           \* tags t of the existing <root>_init_<t>.resume files
    dyn_resume,      \* tag of the checkpoint copied to <root>_dyn.resume
    nlives_array,    \* scaled weights after clamping, in 1/Unit live points
    peak_start_ind,  \* first index whose scaled weight exceeds ninit
    nlives_dict,     \* schedule: key index -> live count
    resume_ndead,    \* selected checkpoint tag
    removed,         \* number of os.remove calls done
    \* ---- combine_resumed_dyn_run ----
    mpc,             \* position in combine_resumed_dyn_run
    init,            \* the exploratory run (mutated in place)
    dyn,             \* the dynamic run
    m_resume,        \* argument resume_ndead
    live_inds,       \* indices of the live-at-resume points
    empty_thread_inds,
    th_i,            \* loop counter i of the enumerate over np.unique
    init0,           \* the exploratory run as passed in (never written)
    run              \* the merged run returned

cvars == <<pc, ninit, init_step, dyn_nlive_step, rank, add_points, step_ndead,
           cut, calls, files, dyn_resume, nlives_array, peak_start_ind,
           nlives_dict, resume_ndead, removed>>
mvars == <<mpc, init, dyn, m_resume, live_inds, empty_thread_inds, th_i,
           init0, run>>
vars == <<cvars, mvars>>

(***************************************************************************)
(* Bounds of the model.                                                    *)
(***************************************************************************)
MaxIter == 4     \* sub-invocations of the exploration loop explored
MaxInc == 2      \* dead points a sampler adds before terminating on its own
Unit == 2        \* scaled weights are multiples of 1/Unit

NinitValues == {1, 2}
InitStepValues == {1, 2, 3}
StrideValues == {1, 2}
Ranks == {0, 1}
SeedKey == -1    \* stands for the key -1. * 10e100, below every logl

Last(s) == s[Len(s)]
SeqToSet(s) == {s[i] : i \in 1..Len(s)}
Max(S) == CHOOSE x \in S : \A y \in S : y <= x
Min(S) == CHOOSE x \in S : \A y \in S : x <= y

(***************************************************************************)
(* The external sampler, PyPolyChord.run_polychord, as the loop uses it:   *)
(* resumed from prev dead points under the cap max_ndead, it adds dead     *)
(* points and either runs into the cap or terminates on its own below it.  *)
(* output.ndead counts the nlive final live points too.                    *)
(***************************************************************************)
SamplerOutcomes(prev, max_ndead, nlive) ==
    {[ndead |-> max_ndead + nlive, capped |-> TRUE]}
    \cup {[ndead |-> d + nlive, capped |-> FALSE] :
            d \in {x \in (prev + 1)..(prev + MaxInc) : x < max_ndead}}

\* a slip in the exit test: any step of one or more stops the loop
StopTestAtLeast(h) ==
    /\ Len(h) >= 2
    /\ h[Len(h)] >= h[Len(h) - 1] + 1

\* the loop's exit test
StopTest(h) ==
    /\ Len(h) >= 2
    /\ h[Len(h)] = h[Len(h) - 1] + 1

\* pc_settings of the next exploration call
InitSettings(h, n, step) ==
    [file_root |-> "init", nlive |-> n, read_resume |-> (Len(h) >= 1),
     max_ndead |-> (Len(h) + 1) * step]

\* a slip in the tag: the pass number instead of the dead count
CheckpointTagByPass(h) == Len(h)

\* the tag of the copied resume file, str(step_ndead[-1])
CheckpointTag(h) == Last(h)

\* one pass of the while loop: the sampler call, the history entry, the
\* tagged copy of the resume file and the exit test
ExploreStep ==
    /\ pc = "loop"
    /\ add_points
    /\ Len(step_ndead) < MaxIter
    /\ LET settings == InitSettings(step_ndead, ninit, init_step)
           prev == IF step_ndead = <<>> THEN 0 ELSE Last(step_ndead)
       IN \E output \in SamplerOutcomes(prev, settings.max_ndead, settings.nlive) :
            LET h == Append(step_ndead, output.ndead - settings.nlive)
            IN /\ calls' = Append(calls, settings)
               /\ step_ndead' = h
               /\ cut' = Append(cut, output.capped)
               /\ files' = files \cup {CheckpointTag(h)}
               /\ add_points' = ~StopTest(h)
               /\ pc' = IF StopTest(h) THEN "alloc" ELSE "loop"
    /\ UNCHANGED <<ninit, init_step, dyn_nlive_step, rank, dyn_resume,
                   nlives_array, peak_start_ind, nlives_dict, resume_ndead,
                   removed, mvars>>

(***************************************************************************)
(* Allocation of live points.  The scaled weights w_rel * scale come from  *)
(* nestcheck; a profile gives them over the N samples of the exploratory   *)
(* run in 1/Unit live points: pre before index p, top at p, tail after.    *)
(***************************************************************************)
Profile(N, pre, p, top, tail) ==
    [i \in 0..(N - 1) |-> IF i < p THEN pre ELSE IF i = p THEN top ELSE tail]

WeightProfiles(N, n) ==
    {Profile(N, pre, p, top, tail) :
        pre \in {0, n * Unit - 1}, p \in 0..N,
        top \in {n * Unit + 1, n * Unit + Unit + 1},
        tail \in {0, n * Unit - 1, n * Unit + Unit + 1}}

\* nlives_array > ninit
Exceeds(w, n) == {i \in DOMAIN w : w[i] > n * Unit}

\* np.where(nlives_array > ninit)[0][0]
PeakStart(w, n) == Min(Exceeds(w, n))

\* a slip in the clamp: the weights are left as they are
ClampNone(w, p, n) == w

\* nlives_array[:peak_start_ind] = ninit
Clamp(w, p, n) == [i \in DOMAIN w |-> IF i < p THEN n * Unit ELSE w[i]]

\* int(x) of a non-negative float
IntOf(x) == x \div Unit

\* steps = dyn_nlive_step * range(N // dyn_nlive_step), 0-based
Steps(N, s) == [i \in 0..((N \div s) - 1) |-> s * i]

\* the schedule: the key of a sample is its index (logl increases strictly
\* with the index), SeedKey is the seed entry
NlivesDict(arr, N, s, n) ==
    LET steps == Steps(N, s)
        K == {i \in 0..((N \div s) - 2) : IntOf(arr[steps[i + 1]]) >= 1}
    IN [k \in {SeedKey} \cup {steps[i] : i \in K} |->
            IF k = SeedKey THEN n ELSE IntOf(arr[k + s])]

AllocateSchedule ==
    /\ pc = "alloc"
    /\ LET N == Last(step_ndead) + ninit
       IN \E w \in WeightProfiles(N, ninit) :
            /\ Exceeds(w, ninit) # {}
            /\ peak_start_ind' = PeakStart(w, ninit)
            /\ nlives_array' = Clamp(w, PeakStart(w, ninit), ninit)
            /\ nlives_dict' = NlivesDict(nlives_array', N, dyn_nlive_step, ninit)
    /\ pc' = "select"
    /\ UNCHANGED <<ninit, init_step, dyn_nlive_step, rank, add_points,
                   step_ndead, cut, calls, files, dyn_resume, resume_ndead,
                   removed, mvars>>

\* no scaled weight exceeds ninit: [0][0] raises IndexError
AllocateFail ==
    /\ pc = "alloc"
    /\ LET N == Last(step_ndead) + ninit
       IN \E w \in WeightProfiles(N, ninit) :
            /\ Exceeds(w, ninit) = {}
            /\ nlives_array' = w
    /\ pc' = "alloc_error"
    /\ UNCHANGED <<ninit, init_step, dyn_nlive_step, rank, add_points,
                   step_ndead, cut, calls, files, dyn_resume, peak_start_ind,
                   nlives_dict, resume_ndead, removed, mvars>>

(***************************************************************************)
(* Choice of the resume checkpoint.                                        *)
(***************************************************************************)
\* a slip in the comparison: <= for <
QualifyingOrEqual(h, peak) == {j \in 1..Len(h) : h[j] - 1 <= peak}

\* np.where(resume_steps < peak_start_ind)[0], as positions of the history
Qualifying(h, peak) == {j \in 1..Len(h) : h[j] - 1 < peak}

\* a slip in the index: [0][0], the first checkpoint before the peak
ResumeSelectFirst(h, peak) == h[Min({j \in 1..Len(h) : h[j] - 1 < peak})]

\* step_ndead[np.where(resume_steps < peak_start_ind)[0][-1]]
ResumeSelect(h, peak) == h[Max(Qualifying(h, peak))]

SelectResume ==
    /\ pc = "select"
    /\ Qualifying(step_ndead, peak_start_ind) # {}
    /\ resume_ndead' = ResumeSelect(step_ndead, peak_start_ind)
    /\ resume_ndead' \in files          \* shutil.copyfile reads the tagged file
    /\ dyn_resume' = {resume_ndead'}
    /\ pc' = "dyn"
    /\ UNCHANGED <<ninit, init_step, dyn_nlive_step, rank, add_points,
                   step_ndead, cut, calls, files, nlives_array,
                   peak_start_ind, nlives_dict, removed, mvars>>

\* no checkpoint lies before the peak: [0][-1] raises IndexError
SelectFail ==
    /\ pc = "select"
    /\ Qualifying(step_ndead, peak_start_ind) = {}
    /\ pc' = "select_error"
    /\ UNCHANGED <<ninit, init_step, dyn_nlive_step, rank, add_points,
                   step_ndead, cut, calls, files, dyn_resume, nlives_array,
                   peak_start_ind, nlives_dict, resume_ndead, removed, mvars>>

(***************************************************************************)
(* The dynamic run and the removal of the tagged checkpoints.              *)
(***************************************************************************)
DynSettings(s) ==
    [file_root |-> "dyn", nlive |-> s, read_resume |-> TRUE]

RunDynamic ==
    /\ pc = "dyn"
    /\ calls' = Append(calls, DynSettings(dyn_nlive_step))
    /\ pc' = IF rank = 0 THEN "cleanup" ELSE "done"
    /\ UNCHANGED <<ninit, init_step, dyn_nlive_step, rank, add_points,
                   step_ndead, cut, files, dyn_resume, nlives_array,
                   peak_start_ind, nlives_dict, resume_ndead, removed, mvars>>

\* the tag the next os.remove is called on
NextRemoved(h, k) == h[k + 1]

\* os.remove of one tagged checkpoint
RemoveCheckpoint ==
    /\ pc = "cleanup"
    /\ removed < Len(step_ndead)
    /\ NextRemoved(step_ndead, removed) \in files
    /\ files' = files \ {NextRemoved(step_ndead, removed)}
    /\ removed' = removed + 1
    /\ UNCHANGED <<pc, ninit, init_step, dyn_nlive_step, rank, add_points,
                   step_ndead, cut, calls, dyn_resume, nlives_array,
                   peak_start_ind, nlives_dict, resume_ndead, mvars>>

\* save_info and the timing report
SaveInfo ==
    /\ pc = "cleanup"
    /\ removed = Len(step_ndead)
    /\ pc' = "done"
    /\ UNCHANGED <<ninit, init_step, dyn_nlive_step, rank, add_points,
                   step_ndead, cut, calls, files, dyn_resume, nlives_array,
                   peak_start_ind, nlives_dict, resume_ndead, removed, mvars>>

(***************************************************************************)
(* combine_resumed_dyn_run.  A run holds its parallel sample arrays logl   *)
(* and thread_labels and one thread_min_max row <<birth, death>> per       *)
(* thread; theta and nlive_array are cut exactly as logl is.  Python       *)
(* positions are 0-based, positions of a sequence here are 1-based: row i  *)
(* of the code is thread_min_max[i + 1].                                   *)
(***************************************************************************)
MinusInf == 0    \* -np.inf, below every logl

RECURSIVE SortedSeq(_)
\* the elements of a set of numbers in increasing order (np.unique, np.where)
SortedSeq(S) ==
    IF S = {} THEN <<>> ELSE <<Min(S)>> \o SortedSeq(S \ {Min(S)})

\* np.unique(a)
Unique(a) == SortedSeq(SeqToSet(a))

\* np.where(a == v)[0], as 1-based positions
Where(a, v) == {j \in 1..Len(a) : a[j] = v}

\* a[:r]
Take(a, r) == SubSeq(a, 1, IF r < Len(a) THEN r ELSE Len(a))

\* a[r:]
Drop(a, r) == SubSeq(a, r + 1, Len(a))

\* np.delete(a, inds), inds a set of 1-based positions
Delete(a, inds) ==
    LET keep == SortedSeq((1..Len(a)) \ inds)
    IN [k \in 1..Len(keep) |-> a[keep[k]]]

\* np.array_equal(init['logl'][:resume_ndead], dyn['logl'][:resume_ndead])
PrefixEqual(a, b, r) == Take(a, r) = Take(b, r)

\* a slip in the check: present, however often
OccursAtLeastOnce(a, v) == Cardinality({j \in 1..Len(a) : a[j] = v}) >= 1

\* np.where(dyn['logl'] == live_logl)[0].shape == (1,)
OccursOnce(a, v) == Cardinality(Where(a, v)) = 1

\* lines 93-95: the first resume_ndead samples are cut
Truncated(in, r) ==
    [in EXCEPT !.logl = Drop(in.logl, r),
               !.thread_labels = Drop(in.thread_labels, r)]

\* th_inds[0] of the thread met at pass i of the loop
FirstInd(in, i) == Min(Where(in.thread_labels, Unique(in.thread_labels)[i + 1]))

\* the row the loop writes at pass i
BoundRow(i, th_lab) == i + 1

\* a slip in the column: the death bound is written
SetDeath(in, i, live_logl) ==
    [in EXCEPT !.thread_min_max[i + 1][2] = live_logl]

\* line 108: init['thread_min_max'][i, 0] = live_logl
SetBirth(in, i, live_logl) ==
    [in EXCEPT !.thread_min_max[BoundRow(i, Unique(in.thread_labels)[i + 1])][1] =
                   live_logl]

\* a slip in the renumbering: the labels are kept
RelabelKept(labels) == labels

\* lines 119-122: thread labels renumbered in the order of np.unique
Relabel(labels) ==
    LET u == Unique(labels)
    IN [j \in 1..Len(labels) |-> Min(Where(u, labels[j])) - 1]

\* lines 124-125: each renumbered thread against its thread_min_max row
RelabelChecks(logl, labels, tmm) ==
    LET u == Unique(labels)
    IN \A i \in 0..(Len(u) - 1) :
         LET inds == Where(labels, u[i + 1])
         IN /\ i + 1 <= Len(tmm)
            /\ tmm[i + 1][1] <= logl[Min(inds)]
            /\ tmm[i + 1][2] = logl[Max(inds)]

\* a slip in the deletion: the live points stay
LiveKept(in, inds) == in

\* lines 110-112: the live points leave the sample arrays
LiveDeleted(in, inds) ==
    [in EXCEPT !.logl = Delete(in.logl, inds),
               !.thread_labels = Delete(in.thread_labels, inds)]

\* lines 114-127: the rows of the emptied threads go, the labels close up
EmptyThreadsRemoved(in, empties) ==
    IF empties = <<>> THEN in
    ELSE [in EXCEPT !.thread_min_max =
                        Delete(in.thread_min_max,
                               {empties[k] + 1 : k \in 1..Len(empties)}),
                    !.thread_labels = Relabel(in.thread_labels)]

RECURSIVE MergeSorted(_, _)
\* two sorted sample arrays put in one, sorted (combine_threads)
MergeSorted(a, b) ==
    IF a = <<>> THEN b
    ELSE IF b = <<>> THEN a
    ELSE IF Head(a) <= Head(b) THEN <<Head(a)>> \o MergeSorted(Tail(a), b)
    ELSE <<Head(b)>> \o MergeSorted(a, Tail(b))

\* line 91 fails: AssertionError
PrefixMismatch ==
    /\ mpc = "start"
    /\ ~PrefixEqual(init.logl, dyn.logl, m_resume)
    /\ mpc' = "abort"
    /\ UNCHANGED <<init, dyn, m_resume, live_inds, empty_thread_inds, th_i,
                   init0, run, cvars>>

\* lines 91-99
Truncate ==
    /\ mpc = "start"
    /\ PrefixEqual(init.logl, dyn.logl, m_resume)
    /\ init' = Truncated(init, m_resume)
    /\ live_inds' = <<>>
    /\ empty_thread_inds' = <<>>
    /\ th_i' = 0
    /\ mpc' = "threads"
    /\ UNCHANGED <<dyn, m_resume, init0, run, cvars>>

\* one pass of the loop of lines 100-108
ThreadStep ==
    /\ mpc = "threads"
    /\ th_i < Len(Unique(init.thread_labels))
    /\ LET first == FirstInd(init, th_i)
           th_inds == Where(init.thread_labels, init.thread_labels[first])
           live_logl == init.logl[first]
       IN /\ OccursOnce(dyn.logl, live_logl)
          /\ th_i + 1 <= Len(init.thread_min_max)
          /\ live_inds' = Append(live_inds, first)
          /\ empty_thread_inds' =
                IF Cardinality(th_inds) = 1
                THEN Append(empty_thread_inds, th_i) ELSE empty_thread_inds
          /\ init' = SetBirth(init, th_i, live_logl)
    /\ th_i' = th_i + 1
    /\ UNCHANGED <<mpc, dyn, m_resume, init0, run, cvars>>

\* line 106 fails: AssertionError
LivePointCheckFail ==
    /\ mpc = "threads"
    /\ th_i < Len(Unique(init.thread_labels))
    /\ ~OccursOnce(dyn.logl, init.logl[FirstInd(init, th_i)])
    /\ mpc' = "abort"
    /\ UNCHANGED <<init, dyn, m_resume, live_inds, empty_thread_inds, th_i,
                   init0, run, cvars>>

\* lines 109-127, after the loop
DropLivePoints ==
    /\ mpc = "threads"
    /\ th_i = Len(Unique(init.thread_labels))
    /\ LET cutrun == LiveDeleted(init, SeqToSet(live_inds))
           rows == Delete(init.thread_min_max,
                          {empty_thread_inds[k] + 1 :
                              k \in 1..Len(empty_thread_inds)})
       IN IF empty_thread_inds # <<>>
             /\ ~RelabelChecks(cutrun.logl, cutrun.thread_labels, rows)
          THEN /\ mpc' = "abort"
               /\ init' = cutrun
          ELSE /\ mpc' = "combine"
               /\ init' = EmptyThreadsRemoved(cutrun, empty_thread_inds)
    /\ UNCHANGED <<dyn, m_resume, live_inds, empty_thread_inds, th_i, init0,
                   run, cvars>>

\* line 130: init['thread_labels'] += dyn['thread_min_max'].shape[0]
Offset(labels, k) == [j \in 1..Len(labels) |-> labels[j] + k]

\* lines 128-135: the labels move past the dynamic run's, the threads of
\* both runs are put together
CombineThreads ==
    /\ mpc = "combine"
    /\ init' = [init EXCEPT !.thread_labels = Offset(init.thread_labels, dyn.nthreads)]
    /\ run' = [logl |-> MergeSorted(dyn.logl, init.logl),
               nthreads |-> dyn.nthreads + Len(init.thread_min_max)]
    /\ mpc' = "done"
    /\ UNCHANGED <<dyn, m_resume, live_inds, empty_thread_inds, th_i, init0,
                   cvars>>

(***************************************************************************)
(* The runs the merge is given.  The exploratory run is a run at constant  *)
(* nlive: T threads, all born at -inf, each ending in one of the T final   *)
(* live points, which close the run; its logl values are distinct (they    *)
(* are 1..N here) and it was resumed from at most N - T dead points.  The  *)
(* dynamic run is any sorted run over the values of the exploratory run    *)
(* and one value of its own.                                               *)
(***************************************************************************)
MaxThreads == 2    \* threads of the exploratory run
MaxSamples == 4    \* samples of the exploratory run
MaxDynLen == 4     \* samples of the dynamic run
DynThreadValues == {1, 2}

ThreadLabelings(N, T) ==
    {l \in [1..N -> 0..(T - 1)] :
        \A t \in 0..(T - 1) : \E j \in (N - T + 1)..N : l[j] = t}

DeathBounds(logl, labels, T) ==
    [t \in 1..T |-> <<MinusInf, logl[Max(Where(labels, t - 1))]>>]

ConstantRun(N, T, l) ==
    [logl |-> [j \in 1..N |-> j],
     thread_labels |-> l,
     thread_min_max |-> DeathBounds([j \in 1..N |-> j], l, T)]

InitRuns ==
    UNION {UNION {{ConstantRun(N, T, l) : l \in ThreadLabelings(N, T)} :
                    T \in {t \in 1..MaxThreads : t <= N}} :
             N \in 1..MaxSamples}

SortedSeqs(vals, maxlen) ==
    UNION {{q \in [1..n -> vals] : \A j \in 1..(n - 1) : q[j] <= q[j + 1]} :
             n \in 0..maxlen}

DynRuns(N) ==
    {[logl |-> q, nthreads |-> k] :
        q \in SortedSeqs(1..(N + 1), MaxDynLen), k \in DynThreadValues}

\* the controller is idle while the merge runs
ControllerIdle ==
    /\ pc = "idle" /\ ninit = 0 /\ init_step = 0 /\ dyn_nlive_step = 0
    /\ rank = 0 /\ add_points = FALSE /\ step_ndead = <<>> /\ cut = <<>>
    /\ calls = <<>> /\ files = {} /\ dyn_resume = {} /\ nlives_array = <<>>
    /\ peak_start_ind = 0 /\ nlives_dict = <<>> /\ resume_ndead = 0
    /\ removed = 0

InitMerge ==
    /\ ControllerIdle
    /\ mpc = "start"
    /\ init0 \in InitRuns
    /\ init = init0
    /\ dyn \in DynRuns(Len(init0.logl))
    /\ m_resume \in 0..(Len(init0.logl) - Len(init0.thread_min_max))
    /\ live_inds = <<>>
    /\ empty_thread_inds = <<>>
    /\ th_i = 0
    /\ run = <<>>

NextMerge ==
    \/ PrefixMismatch
    \/ Truncate
    \/ ThreadStep
    \/ LivePointCheckFail
    \/ DropLivePoints
    \/ CombineThreads

SpecMerge == InitMerge /\ [][NextMerge]_vars

\* the merge is idle while the controller runs
MergeIdle ==
    /\ mpc = "idle"
    /\ init = <<>> /\ dyn = <<>> /\ m_resume = 0 /\ live_inds = <<>>
    /\ empty_thread_inds = <<>> /\ th_i = 0 /\ init0 = <<>> /\ run = <<>>

ControllerStart(steps) ==
    /\ pc = "loop"
    /\ ninit \in NinitValues
    /\ init_step \in steps
    /\ dyn_nlive_step \in StrideValues
    /\ rank \in Ranks
    /\ add_points = TRUE
    /\ step_ndead = <<>>
    /\ cut = <<>>
    /\ calls = <<>>
    /\ files = {}
    /\ dyn_resume = {}
    /\ nlives_array = <<>>
    /\ peak_start_ind = 0
    /\ nlives_dict = <<>>
    /\ resume_ndead = 0
    /\ removed = 0

Init == ControllerStart(InitStepValues) /\ MergeIdle

Next ==
    \/ ExploreStep
    \/ AllocateSchedule
    \/ AllocateFail
    \/ SelectResume
    \/ SelectFail
    \/ RunDynamic
    \/ RemoveCheckpoint
    \/ SaveInfo

Spec == Init /\ [][Next]_vars

(***************************************************************************)
(* The exploration loop alone, with the step sizes of the documented       *)
(* example among its inputs.                                               *)
(***************************************************************************)
ExploreInitSteps == {1, 2, 50}

InitExplore == ControllerStart(ExploreInitSteps) /\ MergeIdle

NextExplore == ExploreStep

SpecExplore == InitExplore /\ [][NextExplore]_vars

(***************************************************************************)
(* The choice of the resume checkpoint alone, over checkpoint histories    *)
(* and peak indices given directly.                                        *)
(***************************************************************************)
MaxPeak == 45    \* peak indices explored
SelectCounts == {10, 20, 30, 40}

SelectHistories == {SortedSeq(S) : S \in (SUBSET SelectCounts) \ {{}}}

InitSelect ==
    /\ MergeIdle
    /\ pc = "select"
    /\ step_ndead \in SelectHistories
    /\ peak_start_ind \in 0..MaxPeak
    /\ files = SeqToSet(step_ndead)
    /\ ninit = 1 /\ init_step = 1 /\ dyn_nlive_step = 1 /\ rank = 0
    /\ add_points = FALSE /\ cut = <<>> /\ calls = <<>> /\ dyn_resume = {}
    /\ nlives_array = <<>> /\ nlives_dict = <<>> /\ resume_ndead = 0
    /\ removed = 0

NextSelect ==
    \/ SelectResume
    \/ SelectFail

SpecSelect == InitSelect /\ [][NextSelect]_vars

(***************************************************************************)
(* Properties of the exploration loop.                                     *)
(***************************************************************************)
InitCalls == {k \in 1..Len(calls) : calls[k].file_root = "init"}

\* C1: with h the history appended once per sampler call, the loop goes on
\* after the first call, it has stopped after call n >= 2 exactly when
\* h[n] = h[n-1] + 1, no earlier call met that condition, a stopped loop
\* calls the sampler no more, and the history 50, 100, 101 is stopped at its
\* third call.
C1_StopRule ==
    LET n == Len(step_ndead)
    IN /\ Cardinality(InitCalls) = n
       /\ (n <= 1 => add_points)
       /\ (~add_points <=> (n >= 2 /\ step_ndead[n] = step_ndead[n - 1] + 1))
       /\ \A k \in 2..(n - 1) : step_ndead[k] # step_ndead[k - 1] + 1
       /\ (~add_points => ~ENABLED ExploreStep)
       /\ (step_ndead = <<50, 100, 101>> => (~add_points /\ Len(calls) = 3))

C1_Witness ==
    /\ step_ndead = <<50, 100, 101>>
    /\ ~add_points
    /\ pc = "alloc"

\* C10: the loop stops only after a sub-invocation in which the sampler
\* terminated on its own below its cap, never after one cut off by the cap.
C10_StopsOnlyOnNaturalEnd ==
    (~add_points /\ cut # <<>>) => ~Last(cut)

(***************************************************************************)
(* Properties of the allocation and of the resume choice.                  *)
(***************************************************************************)
Selected == pc \in {"dyn", "cleanup", "done"}

\* C2: when some checkpoint has dead count - 1 below the peak index, the
\* checkpoint selected is in the history, lies before the peak, has the
\* largest dead count of those that do, is the latest of them, and is the
\* one copied for the dynamic run; the weights before the peak are at ninit;
\* the choice fails only when no checkpoint lies before the peak.
C2_ResumeIsLatestBeforePeak ==
    /\ Selected =>
         /\ \E j \in 1..Len(step_ndead) :
              /\ step_ndead[j] = resume_ndead
              /\ \A k \in (j + 1)..Len(step_ndead) :
                   ~(step_ndead[k] - 1 < peak_start_ind)
         /\ resume_ndead - 1 < peak_start_ind
         /\ \A j \in 1..Len(step_ndead) :
              step_ndead[j] - 1 < peak_start_ind => step_ndead[j] <= resume_ndead
         /\ dyn_resume = {resume_ndead}
         /\ \A i \in 0..(peak_start_ind - 1) : nlives_array[i] = ninit * Unit
    /\ pc = "select_error" =>
         \A j \in 1..Len(step_ndead) : ~(step_ndead[j] - 1 < peak_start_ind)

C2_Witness ==
    /\ pc = "dyn"
    /\ Len(step_ndead) >= 3
    /\ resume_ndead = step_ndead[2]
    /\ step_ndead[1] < resume_ndead
    /\ step_ndead[3] - 1 >= peak_start_ind

\* C3 as stated: for the checkpoints 10, 20, 30, 40 and the peak index 25
\* the checkpoint at dead count 30 is selected.
C3_Selects30 ==
    (pc = "dyn" /\ step_ndead = <<10, 20, 30, 40>> /\ peak_start_ind = 25)
        => resume_ndead = 30

\* C3 amended: for the checkpoints 10, 20, 30, 40 and the peak index 25 the
\* checkpoint at dead count 20 is selected (30 - 1 = 29 is not below 25).
C3_Selects20 ==
    (pc = "dyn" /\ step_ndead = <<10, 20, 30, 40>> /\ peak_start_ind = 25)
        => (resume_ndead = 20 /\ dyn_resume = {20})

C3_Witness ==
    /\ pc = "dyn"
    /\ step_ndead = <<10, 20, 30, 40>>
    /\ peak_start_ind = 25
    /\ dyn_resume # {}

Scheduled == pc \in {"select", "select_error", "dyn", "cleanup", "done"}

SampleKeys == DOMAIN nlives_dict \ {SeedKey}

\* C4 as stated: every schedule entry keyed at a sample index before the
\* peak index has live count ninit, the look-ahead entries included.
C4_FloorAtEveryKey ==
    Scheduled => \A k \in SampleKeys : k < peak_start_ind => nlives_dict[k] = ninit

\* C4 amended: a schedule entry keyed at sample index k has live count ninit
\* when the index it looks ahead to, k + dyn_nlive_step, is before the peak
\* index, and every such key is in the schedule; an entry keyed before the
\* peak whose look-ahead index is at or past the peak carries the integer
\* part of the weight there instead; the seed entry is ninit.
C4_FloorBeforeLookAhead ==
    Scheduled =>
        /\ nlives_dict[SeedKey] = ninit
        /\ \A k \in SampleKeys :
             /\ k + dyn_nlive_step < peak_start_ind => nlives_dict[k] = ninit
             /\ (k < peak_start_ind /\ k + dyn_nlive_step >= peak_start_ind) =>
                   nlives_dict[k] = nlives_array[k + dyn_nlive_step] \div Unit
        /\ \A i \in 0..(((Last(step_ndead) + ninit) \div dyn_nlive_step) - 2) :
             dyn_nlive_step * (i + 1) < peak_start_ind =>
                 dyn_nlive_step * i \in SampleKeys

C4_Witness ==
    /\ pc = "select"
    /\ ninit = 2
    /\ \E k \in SampleKeys : k + dyn_nlive_step < peak_start_ind
    /\ \E k \in SampleKeys : k < peak_start_ind /\ nlives_dict[k] > ninit

(***************************************************************************)
(* Life of the tagged checkpoints.                                         *)
(***************************************************************************)
\* C8: every sub-invocation leaves one checkpoint copy tagged with the dead
\* count it reached, one file per pass; no tagged checkpoint is removed
\* before the selected one was copied for the dynamic run; when the run of
\* the root process is complete every tagged checkpoint, the selected one
\* too, has been removed by a removal that succeeded.
C8_CheckpointLifecycle ==
    /\ pc \in {"loop", "alloc", "alloc_error", "select", "select_error", "dyn"} =>
         /\ files = SeqToSet(step_ndead)
         /\ Cardinality(files) = Len(step_ndead)
         /\ removed = 0
    /\ (removed > 0 \/ files # SeqToSet(step_ndead)) =>
         /\ dyn_resume = {resume_ndead}
         /\ resume_ndead \in SeqToSet(step_ndead)
         /\ Len(calls) = Len(step_ndead) + 1
    /\ pc = "cleanup" =>
         files = {step_ndead[k] : k \in (removed + 1)..Len(step_ndead)}
    /\ (pc = "done" /\ rank = 0) =>
         /\ files = {}
         /\ removed = Len(step_ndead)

C8_Witness ==
    /\ pc = "done"
    /\ rank = 0
    /\ Len(step_ndead) >= 3
    /\ files = {}
    /\ resume_ndead = step_ndead[2]

(***************************************************************************)
(* Properties of the merge.                                                *)
(***************************************************************************)
\* positions of the exploratory run past the resume point
TailPositions == (m_resume + 1)..Len(init0.logl)

\* the threads with a sample past the resume point
TailThreads == {init0.thread_labels[p] : p \in TailPositions}

\* the first sample of thread t past the resume point
LivePosition(t) == Min({p \in TailPositions : init0.thread_labels[p] = t})

LiveLogls == {init0.logl[LivePosition(t)] : t \in TailThreads}

PrefixLogls == {init0.logl[p] : p \in 1..m_resume}

NoDuplicates(a) == \A j, k \in 1..Len(a) : j # k => a[j] # a[k]

Count(a, v) == Cardinality({j \in 1..Len(a) : a[j] = v})

\* the runs have in common the prefix and the live points only
SharedOnlyAtResume ==
    SeqToSet(dyn.logl) \cap SeqToSet(init0.logl) \subseteq PrefixLogls \cup LiveLogls

\* C5 as stated: for every accepted pair of runs no logl value kept from the
\* exploratory tail occurs in the dynamic run too (the merged run has no
\* duplicate logl value).
C5_NoRetainedLoglInDyn ==
    mpc = "done" => SeqToSet(init.logl) \cap SeqToSet(dyn.logl) = {}

\* C5 amended: of the exploratory run the merge keeps the samples past the
\* resume point other than each thread's first one, so the shared prefix
\* and the live-at-resume points come from the dynamic run alone, each live
\* point once; the merged run is the dynamic run with the samples kept, and
\* it has no duplicate logl value when the dynamic run repeats no value and
\* has only the shared prefix and the live-at-resume points in common with
\* the exploratory run.
C5_DedupOfSharedPoints ==
    mpc = "done" =>
        /\ SeqToSet(init.logl) =
              {init0.logl[p] : p \in TailPositions} \ LiveLogls
        /\ Len(run.logl) =
              Len(init0.logl) + Len(dyn.logl) - m_resume - Cardinality(LiveLogls)
        /\ \A v \in SeqToSet(run.logl) :
              Count(run.logl, v) = Count(dyn.logl, v) + Count(init.logl, v)
        /\ \A v \in PrefixLogls \cup LiveLogls : Count(run.logl, v) = Count(dyn.logl, v)
        /\ \A v \in LiveLogls : Count(run.logl, v) = 1
        /\ (SharedOnlyAtResume /\ NoDuplicates(dyn.logl)) => NoDuplicates(run.logl)

C5_Witness ==
    /\ mpc = "done"
    /\ m_resume >= 1
    /\ init.logl # <<>>
    /\ SharedOnlyAtResume
    /\ NoDuplicates(dyn.logl)
    /\ Len(dyn.logl) > m_resume + Cardinality(LiveLogls)

ThreadOfLabel(lab) ==
    init0.thread_labels[
        init.logl[Min({j \in 1..Len(init.logl) : init.thread_labels[j] = lab})]]

PrefixIdentical ==
    /\ m_resume <= Len(dyn.logl)
    /\ \A p \in 1..m_resume : dyn.logl[p] = init0.logl[p]

LivePointsOnce == \A v \in LiveLogls : Count(dyn.logl, v) = 1

\* the live point of the thread the loop is at does not occur once
LiveCheckFails ==
    /\ mpc = "threads"
    /\ th_i < Cardinality(TailThreads)
    /\ Count(dyn.logl, init.logl[FirstInd(init, th_i)]) # 1

\* C9: when the first resume_ndead logl values of the two runs differ, or
\* the first remaining sample of some exploratory thread occurs in the
\* dynamic run not at all or more than once, the merge never passes its
\* checks and returns no run: its step from the failing check is the abort,
\* and nothing follows an abort.
C9_InconsistencyAborts ==
    /\ [](~(PrefixIdentical /\ LivePointsOnce) =>
            (mpc \in {"start", "threads", "abort"} /\ run = <<>>))
    /\ [][/\ (mpc = "start" /\ ~PrefixIdentical) => mpc' = "abort"
          /\ LiveCheckFails => mpc' = "abort"
          /\ mpc # "abort"
          /\ mpc' = "abort" => (run' = <<>> /\ ~(PrefixIdentical /\ LivePointsOnce))
         ]_vars

C9_Witness ==
    /\ mpc = "abort"
    /\ PrefixIdentical
    /\ \E v \in LiveLogls : Count(dyn.logl, v) = 2

====
